---- MODULE Spec2Model ----
(***************************************************************************)
(* Model of the leek terminal audio player: the App state of src/app.rs,   *)
(* the key/tick dispatch of src/main.rs and the rodio Sink the App drives. *)
(*                                                                         *)
(* Encodings: Option<T> is a sequence of length 0 (None) or 1 (Some);      *)
(* a file name is the sequence of its ASCII codes; a path is the sequence  *)
(* of its components below the filesystem root; a Duration is a number of  *)
(* milliseconds; the sink volume is kept as the percentage p of p/100.0.   *)
(***************************************************************************)
EXTENDS Integers, Sequences, FiniteSets, TLC

\* ------------------------------------------------------------------ bounds
\* on_tick is not taken while playing once elapsed has reached MaxTicks ticks
MaxTicks == 2

\* messages the event channel holds at most (mpsc::channel is unbounded)
MaxChannel == 2

\* terminal events waiting to be read at most
MaxPending == 1

\* ------------------------------------------------------- program constants
TickMs == 250
VolumeStep == 5
MaxVolume == 100
InitialVolume == 50
U8 == 256

None == <<>>
Some(x) == <<x>>

Min(a, b) == IF a < b THEN a ELSE b

\* ------------------------------------------------------------- filesystem
\* "/"            b.mp3  A.mp3  sub/  n.txt
\* "/sub"         a.mp3  Z.MP3  d.ogg/  README
\* "/sub/d.ogg"   (empty directory)
n_sub == <<115, 117, 98>>
n_A_mp3 == <<65, 46, 109, 112, 51>>
n_b_mp3 == <<98, 46, 109, 112, 51>>
n_n_txt == <<110, 46, 116, 120, 116>>
n_a_mp3 == <<97, 46, 109, 112, 51>>
n_Z_MP3 == <<90, 46, 77, 80, 51>>
n_d_ogg == <<100, 46, 111, 103, 103>>
n_README == <<82, 69, 65, 68, 77, 69>>
n_gone == <<103, 111, 110, 101>>

RootDir == <<>>
SubDir == <<n_sub>>
OggDir == <<n_sub, n_d_ogg>>
GoneDir == <<n_gone>>

Dirs == {RootDir, SubDir, OggDir}

\* the names fs::read_dir yields for a directory, in the order stored on disk
Children(dir) ==
    IF dir = RootDir THEN <<n_b_mp3, n_A_mp3, n_sub, n_n_txt>>
    ELSE IF dir = SubDir THEN <<n_a_mp3, n_Z_MP3, n_d_ogg, n_README>>
    ELSE <<>>

Reverse(s) == [i \in 1..Len(s) |-> s[Len(s) + 1 - i]]

\* read_dir gives the entries in an order the filesystem chooses
ReadDir(dir, rev) ==
    LET names == IF rev THEN Reverse(Children(dir)) ELSE Children(dir)
    IN  [i \in 1..Len(names) |-> Append(dir, names[i])]

is_dir(path) == path \in Dirs

\* Path::parent: None at the root
parent(path) == IF path = <<>> THEN None ELSE Some(SubSeq(path, 1, Len(path) - 1))

\* Path::file_name
file_name(path) == IF path = <<>> THEN <<>> ELSE path[Len(path)]

\* ------------------------------------------------------- names and sorting
to_lowercase(s) == [i \in 1..Len(s) |-> IF s[i] >= 65 /\ s[i] <= 90 THEN s[i] + 32 ELSE s[i]]

\* Path::extension: the part after the last dot, None without a dot or when
\* the only dot leads the name
extension(path) ==
    LET n == file_name(path)
        dots == {i \in 1..Len(n) : n[i] = 46}
        k == CHOOSE i \in dots : \A j \in dots : j <= i
    IN  IF dots = {} THEN None
        ELSE IF k = 1 THEN None
        ELSE Some(SubSeq(n, k + 1, Len(n)))

AudioExtensions ==
    { <<109, 112, 51>>, <<119, 97, 118>>, <<102, 108, 97, 99>>, <<111, 103, 103>> }

has_audio_extension(path) ==
    /\ extension(path) # None
    /\ to_lowercase(extension(path)[1]) \in AudioExtensions

\* str::cmp == Less: bytewise lexicographic
StrLess(a, b) ==
    \E k \in 0..Min(Len(a), Len(b)) :
        /\ \A i \in 1..k : a[i] = b[i]
        /\ \/ k = Len(a) /\ k < Len(b)
           \/ k < Len(a) /\ k < Len(b) /\ a[k + 1] < b[k + 1]

\* Path::cmp == Less: component by component
PathLess(p, q) ==
    \E k \in 0..Min(Len(p), Len(q)) :
        /\ \A i \in 1..k : p[i] = q[i]
        /\ \/ k = Len(p) /\ k < Len(q)
           \/ k < Len(p) /\ k < Len(q) /\ StrLess(p[k + 1], q[k + 1])

classify(path) ==
    IF is_dir(path) THEN "Directory"
    ELSE IF has_audio_extension(path) THEN "AudioFile"
    ELSE "Other"

BrowserItem(path) ==
    [path |-> path, name |-> file_name(path), file_type |-> classify(path)]

\* the comparator comparing the names as they are, without lower-casing
ItemLess_case_sensitive(a, b) ==
    IF a.file_type = "Directory" /\ b.file_type # "Directory" THEN TRUE
    ELSE IF a.file_type # "Directory" /\ b.file_type = "Directory" THEN FALSE
    ELSE StrLess(a.name, b.name)

\* the comparator of items.sort_by, as "a sorts strictly before b"
ItemLess(a, b) ==
    IF a.file_type = "Directory" /\ b.file_type # "Directory" THEN TRUE
    ELSE IF a.file_type # "Directory" /\ b.file_type = "Directory" THEN FALSE
    ELSE StrLess(to_lowercase(a.name), to_lowercase(b.name))

\* stable insertion: x goes before the first element it is strictly less than
InsertAt(sorted, x, later) ==
    LET pos == IF later = {} THEN Len(sorted) + 1
               ELSE CHOOSE i \in later : \A j \in later : i <= j
    IN  SubSeq(sorted, 1, pos - 1) \o <<x>> \o SubSeq(sorted, pos, Len(sorted))

\* items.sort_by(..): stable, directories first, then lower-cased names
RECURSIVE sort_items(_)
sort_items(s) ==
    IF s = <<>> THEN <<>>
    ELSE LET sorted == sort_items(SubSeq(s, 1, Len(s) - 1))
             x == s[Len(s)]
         IN  InsertAt(sorted, x, {i \in 1..Len(sorted) : ItemLess(x, sorted[i])})

\* folder_files.sort(): by PathBuf ordering
RECURSIVE sort_paths(_)
sort_paths(s) ==
    IF s = <<>> THEN <<>>
    ELSE LET sorted == sort_paths(SubSeq(s, 1, Len(s) - 1))
             x == s[Len(s)]
         IN  InsertAt(sorted, x, {i \in 1..Len(sorted) : PathLess(x, sorted[i])})

\* entries.map(|entry| BrowserItem { .. })
to_items(paths) == [i \in 1..Len(paths) |-> BrowserItem(paths[i])]

\* items.map(|item| item.path.clone())
to_paths(items) == [i \in 1..Len(items) |-> items[i].path]

NotOther(item) == item.file_type # "Other"
\* the queue filter letting every listed item through
IsAudioItem_any(item) == TRUE

IsAudioItem(item) == item.file_type = "AudioFile"

\* ------------------------------------------------------------------ state
VARIABLES
    current_directory,  \* App.current_directory
    browser_items,      \* App.browser_items
    browser_index,      \* App.browser_index (0-based)
    queue,              \* App.queue
    queue_index,        \* App.queue_index (0-based)
    volume,             \* App.volume
    is_playing,         \* App.is_playing
    elapsed,            \* App.elapsed, milliseconds
    duration,           \* App.duration, Option of milliseconds
    sink,               \* App.sink: the rodio Sink
    panicked,           \* the control thread has panicked
    loads,              \* the loads play_queue_item attempted in the last handler
    played_ticks,       \* history: ticks handled while playing since the latest successful load
    term,               \* terminal events crossterm has not yet handed to event::read
    chan,               \* messages sent on tx and not yet received on rx
    rx_dropped,         \* Events (and its Receiver) has been dropped
    input_pc,           \* where the input thread stands
    key,                \* the key the input thread has read and is about to send
    tick_pc             \* where the tick thread stands

appvars == << current_directory, browser_items, browser_index, queue, queue_index,
              volume, is_playing, elapsed, duration, sink, panicked, loads,
              played_ticks >>

evvars == << term, chan, rx_dropped, input_pc, key, tick_pc >>

vars == << appvars, evvars >>

\* the App as one value, so that handlers compose the way the methods call
\* each other (tick_counter, which on_tick increments and nothing reads, is
\* left out)
Self ==
    [ current_directory |-> current_directory, browser_items |-> browser_items,
      browser_index |-> browser_index, queue |-> queue, queue_index |-> queue_index,
      volume |-> volume, is_playing |-> is_playing, elapsed |-> elapsed,
      duration |-> duration, sink |-> sink,
      panicked |-> panicked, loads |-> <<>> ]

\* total durations the decoder may report for a file: None (the format does
\* not know its length) or a length
Durations == {None, Some(1000)}

\* Sink::try_new: nothing appended, playing, volume 1.0
new_sink == [volume |-> 100, paused |-> FALSE, source |-> None, sound_count |-> 0]

\* Sink::set_volume(volume as f32 / 100.0)
set_volume(s, v) == [s EXCEPT !.volume = v]

\* Sink::empty
sink_empty(s) == s.sound_count = 0

Panic(a) == [a EXCEPT !.panicked = TRUE]

\* ------------------------------------------------------------- operations
\* load_directory emptying the queue along with the listing
load_directory_clears_queue(a, path, fs, rev) ==
    IF fs = "missing" \/ ~is_dir(path) THEN a
    ELSE LET cleared == [a EXCEPT !.browser_items = <<>>,
                                  !.browser_index = 0,
                                  !.queue = <<>>,
                                  !.queue_index = 0,
                                  !.current_directory = path]
         IN  IF fs = "unreadable" THEN cleared
             ELSE [cleared EXCEPT !.browser_items =
                      sort_items(SelectSeq(to_items(ReadDir(path, rev)), NotOther))]

\* load_directory without the test that the path is an existing directory
load_directory_unguarded(a, path, fs, rev) ==
    LET cleared == [a EXCEPT !.browser_items = <<>>,
                             !.browser_index = 0,
                             !.current_directory = path]
    IN  IF fs # "ok" \/ ~is_dir(path) THEN cleared
        ELSE [cleared EXCEPT !.browser_items =
                 sort_items(SelectSeq(to_items(ReadDir(path, rev)), NotOther))]

\* fs is what the filesystem answers: "ok", "unreadable" (read_dir fails) or
\* "missing" (the path is no longer an existing directory)
load_directory(a, path, fs, rev) ==
    IF fs = "missing" \/ ~is_dir(path) THEN a
    ELSE LET cleared == [a EXCEPT !.browser_items = <<>>,
                                  !.browser_index = 0,
                                  !.current_directory = path]
         IN  IF fs = "unreadable" THEN cleared
             ELSE [cleared EXCEPT !.browser_items =
                      sort_items(SelectSeq(to_items(ReadDir(path, rev)), NotOther))]

\* play_queue_item without the reset of elapsed
play_queue_item_keep_elapsed(a, ok, dur) ==
    IF a.queue_index < Len(a.queue)
    THEN LET path == a.queue[a.queue_index + 1]
             decoded == ok /\ ~is_dir(path)
             b == [a EXCEPT !.sink = set_volume(new_sink, a.volume),
                            !.loads = Append(@, [path |-> path, ok |-> decoded,
                                                 total_duration |-> IF decoded THEN dur ELSE None])]
         IN  IF decoded
             THEN [b EXCEPT !.duration = dur,
                            !.sink.source = Some(path),
                            !.sink.sound_count = 1,
                            !.sink.paused = FALSE,
                            !.is_playing = TRUE]
             ELSE b
    ELSE a

\* play_queue_item leaving the fresh sink at its default volume
play_queue_item_default_volume(a, ok, dur) ==
    IF a.queue_index < Len(a.queue)
    THEN LET path == a.queue[a.queue_index + 1]
             decoded == ok /\ ~is_dir(path)
             b == [a EXCEPT !.sink = new_sink,
                            !.loads = Append(@, [path |-> path, ok |-> decoded,
                                                 total_duration |-> IF decoded THEN dur ELSE None])]
         IN  IF decoded
             THEN [b EXCEPT !.duration = dur,
                            !.elapsed = 0,
                            !.sink.source = Some(path),
                            !.sink.sound_count = 1,
                            !.sink.paused = FALSE,
                            !.is_playing = TRUE]
             ELSE b
    ELSE a

\* ok, dur: whether File::open and Decoder::new succeed, and the total
\* duration the decoded source reports. Sink::try_new succeeds: the App keeps
\* the OutputStream it was given at construction alive. A path that is a
\* directory never decodes.
play_queue_item(a, ok, dur) ==
    IF a.queue_index < Len(a.queue)
    THEN LET path == a.queue[a.queue_index + 1]
             decoded == ok /\ ~is_dir(path)
             b == [a EXCEPT !.sink = set_volume(new_sink, a.volume),
                            !.loads = Append(@, [path |-> path, ok |-> decoded,
                                                 total_duration |-> IF decoded THEN dur ELSE None])]
         IN  IF decoded
             THEN [b EXCEPT !.duration = dur,
                            !.elapsed = 0,
                            !.sink.source = Some(path),
                            !.sink.sound_count = 1,
                            !.sink.paused = FALSE,
                            !.is_playing = TRUE]
             ELSE b
    ELSE a

\* next_index without the wrap to 0
next_index_nowrap(i, len) == i + 1

next_index(i, len) == IF i + 1 < len THEN i + 1 ELSE 0

\* prev_index saturating at 0 instead of wrapping to the end
prev_index_saturating(i, len) == IF i > 0 THEN i - 1 ELSE 0

\* prev_index wrapping one past the end
prev_index_len(i, len) == IF i > 0 THEN i - 1 ELSE len

prev_index(i, len) == IF i > 0 THEN i - 1 ELSE len - 1

\* next_track putting the volume back to its initial value
next_track_resets_volume(a, ok, dur) ==
    IF a.queue = <<>> THEN a
    ELSE play_queue_item([a EXCEPT !.queue_index = next_index(@, Len(a.queue)),
                                   !.volume = InitialVolume], ok, dur)

next_track(a, ok, dur) ==
    IF a.queue = <<>> THEN a
    ELSE play_queue_item([a EXCEPT !.queue_index = next_index(@, Len(a.queue))], ok, dur)

prev_track(a, ok, dur) ==
    IF a.queue = <<>> THEN a
    ELSE play_queue_item([a EXCEPT !.queue_index = prev_index(@, Len(a.queue))], ok, dur)

\* on_tick advancing twice on a finished track
on_tick_twice(a, ok, dur) ==
    IF a.is_playing
    THEN LET b == [a EXCEPT !.elapsed = @ + TickMs]
         IN  IF sink_empty(b.sink) /\ b.queue # <<>> /\ b.duration # None
             THEN next_track(next_track(b, ok, dur), ok, dur)
             ELSE b
    ELSE a

\* on_tick adding to elapsed whether or not the engine is playing
on_tick_unconditional(a, ok, dur) ==
    LET b == [a EXCEPT !.elapsed = @ + TickMs]
    IN  IF a.is_playing /\ sink_empty(b.sink) /\ b.queue # <<>> /\ b.duration # None
        THEN next_track(b, ok, dur)
        ELSE b

on_tick(a, ok, dur) ==
    IF a.is_playing
    THEN LET b == [a EXCEPT !.elapsed = @ + TickMs]
         IN  IF sink_empty(b.sink) /\ b.queue # <<>> /\ b.duration # None
             THEN next_track(b, ok, dur)
             ELSE b
    ELSE a

enter_selected(a, ok, dur, fs, rev) ==
    IF a.browser_items = <<>> THEN a
    ELSE IF a.browser_index >= Len(a.browser_items) THEN Panic(a)
    ELSE LET selected == a.browser_items[a.browser_index + 1]
         IN  CASE selected.file_type = "Directory" ->
                    load_directory(a, selected.path, fs, rev)
               [] selected.file_type = "AudioFile" ->
                    LET q == to_paths(SelectSeq(a.browser_items, IsAudioItem))
                        found == {i \in 1..Len(q) : q[i] = selected.path}
                        b == [a EXCEPT !.queue = q]
                    IN  IF found = {} THEN b
                        ELSE play_queue_item(
                               [b EXCEPT !.queue_index =
                                   (CHOOSE i \in found : \A j \in found : i <= j) - 1],
                               ok, dur)
               [] OTHER -> a

play_folder(a, ok, dur, fs, rev) ==
    IF a.browser_items = <<>> THEN a
    ELSE IF a.browser_index >= Len(a.browser_items) THEN Panic(a)
    ELSE LET selected == a.browser_items[a.browser_index + 1]
         IN  IF selected.file_type = "Directory" /\ fs = "ok" /\ is_dir(selected.path)
             THEN LET folder_files ==
                          sort_paths(SelectSeq(ReadDir(selected.path, rev), has_audio_extension))
                  IN  IF folder_files # <<>>
                      THEN play_queue_item(
                             [a EXCEPT !.queue = folder_files, !.queue_index = 0], ok, dur)
                      ELSE a
             ELSE a

go_up(a, fs, rev) ==
    IF parent(a.current_directory) # None
    THEN load_directory(a, parent(a.current_directory)[1], fs, rev)
    ELSE a

\* toggle_play with the paused test inverted
toggle_play_inverted(a, ok, dur) ==
    IF sink_empty(a.sink) /\ a.queue # <<>> THEN play_queue_item(a, ok, dur)
    ELSE IF ~a.sink.paused
    THEN [a EXCEPT !.sink.paused = FALSE, !.is_playing = TRUE]
    ELSE [a EXCEPT !.sink.paused = TRUE, !.is_playing = FALSE]

toggle_play(a, ok, dur) ==
    IF sink_empty(a.sink) /\ a.queue # <<>> THEN play_queue_item(a, ok, dur)
    ELSE IF a.sink.paused
    THEN [a EXCEPT !.sink.paused = FALSE, !.is_playing = TRUE]
    ELSE [a EXCEPT !.sink.paused = TRUE, !.is_playing = FALSE]

next_item(a) ==
    IF a.browser_items # <<>>
    THEN [a EXCEPT !.browser_index = next_index(@, Len(a.browser_items))]
    ELSE a

prev_item(a) ==
    IF a.browser_items # <<>>
    THEN [a EXCEPT !.browser_index = prev_index(@, Len(a.browser_items))]
    ELSE a

\* volume_up without the cap
volume_up_uncapped(a) ==
    LET sum == a.volume + VolumeStep
    IN  IF sum >= U8 THEN Panic(a)
        ELSE [a EXCEPT !.volume = sum, !.sink = set_volume(@, sum)]

\* volume + 5 is a u8 addition
volume_up(a) ==
    LET sum == a.volume + VolumeStep
    IN  IF sum >= U8 THEN Panic(a)
        ELSE LET v == Min(sum, MaxVolume)
             IN  [a EXCEPT !.volume = v, !.sink = set_volume(@, v)]

volume_down(a) ==
    LET v == IF a.volume < VolumeStep THEN 0 ELSE a.volume - VolumeStep
    IN  [a EXCEPT !.volume = v, !.sink = set_volume(@, v)]

\* --------------------------------------------------------------- actions
FsAnswers == {"ok", "unreadable", "missing"}

\* what the environment answers during one handler: the outcome of the load
\* (ok, dur) and of the directory access (fs, rev); a handler that reaches a
\* load has had its directory access, if any, succeed
LoadInputs ==
    [ok : BOOLEAN, dur : Durations, fs : {"ok"}, rev : {FALSE}]

DirInputs ==
    [ok : {FALSE}, dur : {None}, fs : FsAnswers, rev : BOOLEAN]

Inputs ==
    [ok : BOOLEAN, dur : Durations, fs : {"ok"}, rev : BOOLEAN] \cup DirInputs

StartDirs == Dirs \cup {GoneDir}

Commit(a) ==
    /\ current_directory' = a.current_directory
    /\ browser_items' = a.browser_items
    /\ browser_index' = a.browser_index
    /\ queue' = a.queue
    /\ queue_index' = a.queue_index
    /\ volume' = a.volume
    /\ is_playing' = a.is_playing
    /\ elapsed' = a.elapsed
    /\ duration' = a.duration
    /\ sink' = a.sink
    /\ panicked' = a.panicked
    /\ loads' = a.loads
    /\ UNCHANGED evvars

\* the history variable played_ticks over one handler that returns a and
\* counts as ticks handled ticks: a successful load starts the count again
Count(a, ticks) ==
    played_ticks' = IF a.loads # <<>> /\ a.loads[Len(a.loads)].ok
                    THEN 0
                    ELSE played_ticks + ticks

\* App::new with start directory start
new(start, fs, rev) ==
    LET a == [ current_directory |-> start, browser_items |-> <<>>, browser_index |-> 0,
               queue |-> <<>>, queue_index |-> 0, volume |-> InitialVolume,
               is_playing |-> FALSE, elapsed |-> 0, duration |-> None,
               sink |-> new_sink, panicked |-> FALSE,
               loads |-> <<>> ]
        b == load_directory(a, start, fs, rev)
    IN  [b EXCEPT !.sink = set_volume(@, b.volume)]

Init ==
    \E start \in StartDirs, fs \in FsAnswers, rev \in BOOLEAN :
        LET a == new(start, fs, rev)
        IN  /\ current_directory = a.current_directory
            /\ browser_items = a.browser_items
            /\ browser_index = a.browser_index
            /\ queue = a.queue
            /\ queue_index = a.queue_index
            /\ volume = a.volume
            /\ is_playing = a.is_playing
            /\ elapsed = a.elapsed
            /\ duration = a.duration
            /\ sink = a.sink
            /\ panicked = a.panicked
            /\ loads = a.loads
            /\ played_ticks = 0
            /\ term = <<>>
            /\ chan = <<>>
            /\ rx_dropped = FALSE
            /\ input_pc = "poll"
            /\ key = "none"
            /\ tick_pc = "send"

KeySpace ==
    /\ ~panicked
    /\ \E in \in LoadInputs : LET a == toggle_play(Self, in.ok, in.dur)
                              IN  Commit(a) /\ Count(a, 0)

KeyUp ==
    /\ ~panicked
    /\ LET a == prev_item(Self)
       IN  Commit(a) /\ Count(a, 0)

KeyDown ==
    /\ ~panicked
    /\ LET a == next_item(Self)
       IN  Commit(a) /\ Count(a, 0)

KeyPageUp ==
    /\ ~panicked
    /\ LET a == volume_up(Self)
       IN  Commit(a) /\ Count(a, 0)

KeyPageDown ==
    /\ ~panicked
    /\ LET a == volume_down(Self)
       IN  Commit(a) /\ Count(a, 0)

KeyEnter ==
    /\ ~panicked
    /\ \E in \in LoadInputs \cup DirInputs : LET a == enter_selected(Self, in.ok, in.dur, in.fs, in.rev)
                                             IN  Commit(a) /\ Count(a, 0)

KeyTab ==
    /\ ~panicked
    /\ \E in \in Inputs : LET a == play_folder(Self, in.ok, in.dur, in.fs, in.rev)
                          IN  Commit(a) /\ Count(a, 0)

KeyBackspace ==
    /\ ~panicked
    /\ \E in \in DirInputs : LET a == go_up(Self, in.fs, in.rev)
                             IN  Commit(a) /\ Count(a, 0)

KeyLeft ==
    /\ ~panicked
    /\ \E in \in LoadInputs : LET a == prev_track(Self, in.ok, in.dur)
                              IN  Commit(a) /\ Count(a, 0)

KeyRight ==
    /\ ~panicked
    /\ \E in \in LoadInputs : LET a == next_track(Self, in.ok, in.dur)
                              IN  Commit(a) /\ Count(a, 0)

Tick ==
    /\ ~panicked
    /\ is_playing => elapsed < MaxTicks * TickMs
    /\ \E in \in LoadInputs : LET a == on_tick(Self, in.ok, in.dur)
                              IN  Commit(a) /\ Count(a, IF is_playing THEN 1 ELSE 0)

\* the audio thread plays the appended source to its end
TrackEnds ==
    /\ sink.sound_count > 0
    /\ ~sink.paused
    /\ sink' = [sink EXCEPT !.sound_count = 0]
    /\ UNCHANGED << current_directory, browser_items, browser_index, queue, queue_index,
                    volume, is_playing, elapsed, duration, panicked, loads,
                    played_ticks, evvars >>

Next ==
    \/ KeySpace
    \/ KeyUp
    \/ KeyDown
    \/ KeyPageUp
    \/ KeyPageDown
    \/ KeyEnter
    \/ KeyTab
    \/ KeyBackspace
    \/ KeyLeft
    \/ KeyRight
    \/ Tick
    \/ TrackEnds

Spec == Init /\ [][Next]_vars

\* ------------------------------------------------------ the event pump
\* Events::with_config spawns two producers on one mpsc channel; main is the
\* consumer. The handler main calls on a received event is what the actions
\* of Next model; here a received event is only taken off the channel.

\* what crossterm may deliver: a press of q (or Esc), a press of another
\* key, a key event that is not a press, an event that is not a key event
TermEvents == {"PressQ", "PressSpace", "Release", "Resize"}

\* KeyEvent with kind Press, by the message it is sent as
PressedKey(e) == IF e = "PressQ" THEN "q" ELSE "space"

\* the user or the terminal produces an event
TermInput ==
    /\ Len(term) < MaxPending
    /\ \E e \in TermEvents : term' = Append(term, e)
    /\ UNCHANGED << appvars, chan, rx_dropped, input_pc, key, tick_pc >>

\* event::poll(100 ms): Ok(true) when an event waits, else it times out
InputPoll ==
    /\ input_pc = "poll"
    /\ input_pc' = IF term # <<>> THEN "read" ELSE "timed_out"
    /\ UNCHANGED << appvars, term, chan, rx_dropped, key, tick_pc >>

\* the poll timed out: the loop starts over
InputLoop ==
    /\ input_pc = "timed_out"
    /\ input_pc' = "poll"
    /\ UNCHANGED << appvars, term, chan, rx_dropped, key, tick_pc >>

\* event::read and the test for a key press
InputRead ==
    /\ input_pc = "read"
    /\ term # <<>>
    /\ term' = Tail(term)
    /\ IF Head(term) \in {"PressQ", "PressSpace"}
       THEN input_pc' = "send" /\ key' = PressedKey(Head(term))
       ELSE input_pc' = "poll" /\ key' = key
    /\ UNCHANGED << appvars, chan, rx_dropped, tick_pc >>

\* tx.send(Event::Input(key)): Err once the receiver is gone, and the thread
\* returns
InputSend ==
    /\ input_pc = "send"
    /\ IF rx_dropped
       THEN input_pc' = "done" /\ chan' = chan
       ELSE /\ Len(chan) < MaxChannel
            /\ chan' = Append(chan, key)
            /\ input_pc' = "poll"
    /\ key' = "none"
    /\ UNCHANGED << appvars, term, rx_dropped, tick_pc >>

InputThread == InputPoll \/ InputLoop \/ InputRead \/ InputSend

\* tx.send(Event::Tick): Err once the receiver is gone, and the loop breaks
TickSend ==
    /\ tick_pc = "send"
    /\ IF rx_dropped
       THEN tick_pc' = "done" /\ chan' = chan
       ELSE /\ Len(chan) < MaxChannel
            /\ chan' = Append(chan, "Tick")
            /\ tick_pc' = "sleep"
    /\ UNCHANGED << appvars, term, rx_dropped, input_pc, key >>

\* thread::sleep(config.tick_rate)
TickSleep ==
    /\ tick_pc = "sleep"
    /\ tick_pc' = "send"
    /\ UNCHANGED << appvars, term, chan, rx_dropped, input_pc, key >>

TickThread == TickSend \/ TickSleep

\* events.next() in main: on q or Esc the loop breaks, main returns and
\* drops events, and with it the receiver and what the channel still holds
Recv ==
    /\ ~rx_dropped
    /\ chan # <<>>
    /\ IF Head(chan) = "q"
       THEN rx_dropped' = TRUE /\ chan' = <<>>
       ELSE rx_dropped' = FALSE /\ chan' = Tail(chan)
    /\ UNCHANGED << appvars, term, input_pc, key, tick_pc >>

\* terminal.draw(..)? fails: main returns early and drops events
DrawFails ==
    /\ ~rx_dropped
    /\ rx_dropped' = TRUE
    /\ chan' = <<>>
    /\ UNCHANGED << appvars, term, input_pc, key, tick_pc >>

NextEvents ==
    \/ TermInput
    \/ InputPoll
    \/ InputLoop
    \/ InputRead
    \/ InputSend
    \/ TickSend
    \/ TickSleep
    \/ Recv
    \/ DrawFails

\* the operating system schedules each spawned thread again and again; key
\* presses and the consumer are under no obligation
SpecEvents ==
    /\ Init
    /\ [][NextEvents]_vars
    /\ WF_vars(InputThread)
    /\ WF_vars(TickThread)

\* ---------------------------------------------------------------- claims
LastLoad(l) == l[Len(l)]

\* C1: whenever the queue is non-empty, 0 <= queue_index < queue.len()
C1_QueueIndexInvariant ==
    queue # <<>> => (0 <= queue_index /\ queue_index < Len(queue))

\* a track command has just loaded the last item of a three-item queue
C1_Witness ==
    /\ Len(queue) = 3
    /\ queue_index = 2
    /\ loads # <<>>
    /\ LastLoad(loads).path = queue[3]

RECURSIVE IterIndex(_, _, _, _)
IterIndex(forward, i, len, n) ==
    IF n = 0 THEN i
    ELSE IterIndex(forward, IF forward THEN next_index(i, len) ELSE prev_index(i, len),
                   len, n - 1)

\* C2: on a non-empty queue, len next_track calls, and len prev_track calls,
\* bring queue_index back to where it was; one next_track gives
\* (index + 1) mod len and one prev_track gives len-1 from 0 and index-1
\* otherwise, whether or not the load succeeds
C2_Wraparound ==
    queue # <<>> =>
        /\ IterIndex(TRUE, queue_index, Len(queue), Len(queue)) = queue_index
        /\ IterIndex(FALSE, queue_index, Len(queue), Len(queue)) = queue_index
        /\ \A in \in LoadInputs :
              LET n == next_track(Self, in.ok, in.dur)
                  p == prev_track(Self, in.ok, in.dur)
              IN  /\ n.queue_index = (queue_index + 1) % Len(queue)
                  /\ n.queue = queue
                  /\ p.queue_index = (queue_index + Len(queue) - 1) % Len(queue)
                  /\ queue_index = 0 => p.queue_index = Len(queue) - 1
                  /\ queue_index > 0 => p.queue_index = queue_index - 1
                  /\ p.queue = queue

\* a failed load has left the index of a three-item queue wrapped to 0
C2_Witness ==
    /\ Len(queue) = 3
    /\ queue_index = 0
    /\ Len(loads) = 1
    /\ ~loads[1].ok
    /\ loads[1].path = queue[1]
    /\ sink.source = None

AudioPositions(items) == {i \in 1..Len(items) : items[i].file_type = "AudioFile"}

\* C3: enter_selected on an AudioFile makes the queue exactly the AudioFile
\* paths of the listing in listing order, points queue_index at the selected
\* file and loads that file
C3_EnterSelectedAudio ==
    ( /\ ~panicked
      /\ browser_items # <<>>
      /\ browser_index < Len(browser_items)
      /\ browser_items[browser_index + 1].file_type = "AudioFile" )
    =>
    \A in \in LoadInputs \cup DirInputs :
        LET pos == AudioPositions(browser_items)
            sel == browser_items[browser_index + 1].path
            b == enter_selected(Self, in.ok, in.dur, in.fs, in.rev)
        IN  /\ Len(b.queue) = Cardinality(pos)
            /\ \A i \in pos : \E k \in 1..Len(b.queue) : b.queue[k] = browser_items[i].path
            /\ \A k \in 1..Len(b.queue) : \E i \in pos : b.queue[k] = browser_items[i].path
            /\ \A k, l \in 1..Len(b.queue) :
                  k < l => \E i, j \in pos : /\ i < j
                                             /\ b.queue[k] = browser_items[i].path
                                             /\ b.queue[l] = browser_items[j].path
            /\ b.queue_index < Len(b.queue)
            /\ b.queue[b.queue_index + 1] = sel
            /\ Len(b.loads) = 1
            /\ b.loads[1].path = sel
            /\ b.loads[1].ok => b.sink.source = Some(sel)
            /\ ~b.panicked

\* the second of two listed audio files was entered: the queue holds both
C3_Witness ==
    /\ Len(browser_items) = 3
    /\ browser_index = 2
    /\ browser_items[3].file_type = "AudioFile"
    /\ queue = <<browser_items[2].path, browser_items[3].path>>
    /\ queue_index = 1
    /\ Len(loads) = 1
    /\ loads[1].path = browser_items[3].path
    /\ loads[1].ok
    /\ sink.source = Some(browser_items[3].path)

\* C4: a load that fails leaves no active audio, is_playing false and the
\* duration as it was, from any prior state
C4_FailedLoadStops ==
    [][ (loads' # <<>> /\ ~LastLoad(loads').ok /\ ~TrackEnds)
        => /\ sink_empty(sink')
           /\ sink'.source = None
           /\ ~is_playing'
           /\ duration' = duration
           /\ ~panicked' ]_vars

\* C5: a tick taken while Playing a successfully loaded track that has ended,
\* with a non-empty queue, advances to (index + 1) mod len and reloads,
\* whatever total duration the decoder reported
C5_CompletionAdvances ==
    [][ ( /\ is_playing
          /\ queue # <<>>
          /\ sink.source # None
          /\ sink_empty(sink)
          /\ Tick )
        => /\ queue_index' = (queue_index + 1) % Len(queue)
           /\ Len(loads') = 1
           /\ loads'[1].path = queue[queue_index' + 1] ]_vars

\* C6: one on_tick while playing, with the channel empty, a duration set and a
\* non-empty queue, advances the index one circular step and attempts exactly
\* one load
C6_OneAdvancePerTick ==
    [][ ( /\ is_playing
          /\ sink_empty(sink)
          /\ duration # None
          /\ queue # <<>>
          /\ Tick )
        => /\ queue_index' = (queue_index + 1) % Len(queue)
           /\ queue' = queue
           /\ Len(loads') = 1
           /\ loads'[1].path = queue[queue_index' + 1] ]_vars

\* playback has restarted from zero on the second item of a queue, as the
\* automatic advance from the first item leaves it
C6_Witness ==
    /\ is_playing
    /\ Len(queue) >= 2
    /\ queue_index = 1
    /\ Len(loads) = 1
    /\ loads[1].ok
    /\ loads[1].path = queue[2]
    /\ elapsed = 0

\* C7: a load that succeeds resets elapsed to zero, sets duration to the
\* decoded source's total duration and is_playing to true, and the path loaded
\* is queue[queue_index]; next_track at index 1 of a two-item queue loads
\* item 0
C7_SuccessfulLoad ==
    [][ /\ (loads' # <<>> /\ LastLoad(loads').ok /\ ~TrackEnds)
           => /\ elapsed' = 0
              /\ duration' = LastLoad(loads').total_duration
              /\ is_playing'
              /\ queue_index' < Len(queue')
              /\ LastLoad(loads').path = queue'[queue_index' + 1]
              /\ sink'.source = Some(queue'[queue_index' + 1])
              /\ ~sink_empty(sink')
              /\ ~sink'.paused
        /\ (Len(queue) = 2 /\ queue_index = 1 /\ KeyRight)
           => /\ queue_index' = 0
              /\ Len(loads') = 1
              /\ loads'[1].path = queue[1] ]_vars

\* the first of two queued items is loaded and playing from zero, the decoder
\* having reported no total duration
C7_Witness ==
    /\ Len(queue) = 2
    /\ queue_index = 0
    /\ Len(loads) = 1
    /\ loads[1].ok
    /\ loads[1].total_duration = None
    /\ duration = None
    /\ elapsed = 0
    /\ is_playing
    /\ sink.source = Some(queue[1])

\* the playback state App::new leaves
Fresh ==
    /\ queue = <<>>
    /\ queue_index = 0
    /\ ~is_playing
    /\ elapsed = 0
    /\ duration = None
    /\ sink = set_volume(new_sink, InitialVolume)
    /\ volume = InitialVolume

\* C8: toggle_play on a freshly constructed engine with an empty queue leaves
\* is_playing false and queue, queue_index, elapsed and duration unchanged
C8_ToggleOnFresh ==
    [][ (Fresh /\ KeySpace)
        => /\ ~is_playing'
           /\ queue' = queue
           /\ queue_index' = queue_index
           /\ elapsed' = elapsed
           /\ duration' = duration
           /\ ~panicked' ]_vars

\* the state one toggle_play after construction
C8_Witness ==
    /\ queue = <<>>
    /\ ~is_playing
    /\ sink.paused
    /\ sink_empty(sink)
    /\ elapsed = 0
    /\ duration = None
    /\ volume = InitialVolume

RECURSIVE VolumeUps(_, _)
VolumeUps(a, n) == IF n = 0 THEN a ELSE VolumeUps(volume_up(a), n - 1)

\* C9: 0 <= volume <= 100 always; volume_up adds 5 capped at 100 and
\* volume_down subtracts 5 floored at 0, with no u8 overflow or underflow;
\* five volume_up calls from 0 give 25
C9_VolumeBound ==
    /\ 0 <= volume /\ volume <= 100
    /\ ~panicked
    /\ volume_up(Self).volume = (IF volume + 5 > 100 THEN 100 ELSE volume + 5)
    /\ ~volume_up(Self).panicked
    /\ volume_down(Self).volume = (IF volume - 5 < 0 THEN 0 ELSE volume - 5)
    /\ ~volume_down(Self).panicked
    /\ volume = 0 => VolumeUps(Self, 5).volume = 25

\* the volume was brought down to the floor
C9_Witness ==
    /\ volume = 0
    /\ sink.volume = 0
    /\ ~panicked

BrowserIndexValid ==
    IF browser_items = <<>> THEN browser_index = 0
    ELSE 0 <= browser_index /\ browser_index < Len(browser_items)

\* C10: browser_index < browser_items.len() whenever the list is non-empty
\* and browser_index = 0 whenever it is empty; next_item and prev_item on an
\* empty list do not panic and leave the index at 0
C10_BrowserIndexInvariant ==
    [][ /\ BrowserIndexValid
        /\ BrowserIndexValid'
        /\ (browser_items = <<>> /\ (KeyDown \/ KeyUp))
           => /\ browser_index' = 0
              /\ browser_items' = <<>>
              /\ ~panicked' ]_vars

\* prev_item wrapped the selection to the last item of a listing
C10_Witness ==
    /\ Len(browser_items) = 3
    /\ browser_index = 2
    /\ loads = <<>>
    /\ queue = <<>>

\* the playback side of the App, with the loads a handler attempted
PlaybackOf(a) ==
    << a.queue, a.queue_index, a.is_playing, a.elapsed, a.duration, a.volume,
       a.sink, a.loads >>

\* C11: next_item, prev_item, go_up, load_directory and enter_selected on a
\* Directory leave queue, queue_index, is_playing, elapsed, duration and volume
\* as they were and neither replace the sink nor attempt a load
C11_BrowsingKeepsPlayback ==
    /\ PlaybackOf(next_item(Self)) = PlaybackOf(Self)
    /\ PlaybackOf(prev_item(Self)) = PlaybackOf(Self)
    /\ \A in \in DirInputs :
          /\ PlaybackOf(go_up(Self, in.fs, in.rev)) = PlaybackOf(Self)
          /\ \A path \in StartDirs :
                PlaybackOf(load_directory(Self, path, in.fs, in.rev)) = PlaybackOf(Self)
    /\ ( /\ browser_items # <<>>
         /\ browser_index < Len(browser_items)
         /\ browser_items[browser_index + 1].file_type = "Directory" )
       => \A in \in LoadInputs \cup DirInputs :
             PlaybackOf(enter_selected(Self, in.ok, in.dur, in.fs, in.rev))
                 = PlaybackOf(Self)

\* a track of /sub is playing while the browser has moved on into the empty
\* directory /sub/d.ogg
C11_Witness ==
    /\ current_directory = OggDir
    /\ browser_items = <<>>
    /\ Len(queue) = 2
    /\ queue[1] = <<n_sub, n_a_mp3>>
    /\ is_playing
    /\ sink.source = Some(queue[queue_index + 1])
    /\ ~sink_empty(sink)
    /\ loads = <<>>

\* C12: only volume_up and volume_down change the volume; track changes,
\* queue rebuilds, toggle_play, on_tick and navigation leave it as it was,
\* whether their load succeeds or fails
C12_VolumePersists ==
    [][ volume' = volume \/ KeyPageUp \/ KeyPageDown ]_vars

\* a track was loaded while the volume stood at a value other than the
\* initial one
C12_Witness ==
    /\ volume = 75
    /\ sink.volume = 75
    /\ Len(loads) = 1
    /\ loads[1].ok
    /\ is_playing

\* the audio files among the immediate children of dir
AudioFilesOf(dir) ==
    { p \in { Append(dir, Children(dir)[i]) : i \in 1..Len(Children(dir)) } :
        ~is_dir(p) /\ has_audio_extension(p) }

\* C13: play_folder replaces the queue only on a Directory with at least one
\* audio file among its immediate children: the queue becomes those files
\* (no subdirectory) sorted by path, queue_index 0, and the item is loaded;
\* on an empty list, an AudioFile selection, a directory without audio files
\* or an unreadable one, queue, queue_index, is_playing, elapsed and duration
\* stay as they were
C13_PlayFolder ==
    \A in \in Inputs :
        LET b == play_folder(Self, in.ok, in.dur, in.fs, in.rev)
            hasSel == browser_items # <<>> /\ browser_index < Len(browser_items)
            sel == browser_items[browser_index + 1]
            files == IF hasSel /\ sel.file_type = "Directory" /\ in.fs = "ok"
                     THEN AudioFilesOf(sel.path) ELSE {}
        IN  IF files # {}
            THEN /\ Len(b.queue) = Cardinality(files)
                 /\ \A p \in files : \E k \in 1..Len(b.queue) : b.queue[k] = p
                 /\ \A k \in 1..Len(b.queue) : b.queue[k] \in files
                 /\ \A k, l \in 1..Len(b.queue) : k < l => PathLess(b.queue[k], b.queue[l])
                 /\ b.queue_index = 0
                 /\ Len(b.loads) = 1
                 /\ b.loads[1].path = b.queue[1]
            ELSE /\ b.queue = queue
                 /\ b.queue_index = queue_index
                 /\ b.is_playing = is_playing
                 /\ b.elapsed = elapsed
                 /\ b.duration = duration
                 /\ b.loads = <<>>

LowerName(item) == to_lowercase(item.name)

\* C14: a scanned listing holds no Other entry, every Directory before every
\* AudioFile, and within each group the names in ascending case-insensitive
\* order; b.mp3, A.mp3, sub/ are listed as sub, A.mp3, b.mp3
C14_ScanOrder ==
    /\ \A i \in 1..Len(browser_items) :
          /\ browser_items[i].file_type \in {"Directory", "AudioFile"}
          /\ browser_items[i].name \notin {n_n_txt, n_README}
          /\ browser_items[i].file_type = "Directory" <=> is_dir(browser_items[i].path)
    /\ \A i, j \in 1..Len(browser_items) :
          i < j =>
            /\ ~( browser_items[i].file_type = "AudioFile"
                  /\ browser_items[j].file_type = "Directory" )
            /\ browser_items[i].file_type = browser_items[j].file_type
               => ~StrLess(LowerName(browser_items[j]), LowerName(browser_items[i]))
    /\ (current_directory = RootDir /\ browser_items # <<>>)
       => [i \in 1..Len(browser_items) |-> browser_items[i].name]
             = <<n_sub, n_A_mp3, n_b_mp3>>

\* /sub scanned: the directory d.ogg first, then a.mp3 before Z.MP3
C14_Witness ==
    /\ current_directory = SubDir
    /\ Len(browser_items) = 3
    /\ browser_items[1].name = n_d_ogg
    /\ browser_items[2].name = n_a_mp3
    /\ browser_items[3].name = n_Z_MP3

\* C15: go_up from a directory without parent, and load_directory on a path
\* that is missing or not a directory, change nothing: current_directory,
\* browser_items, browser_index and the playback state stay as they were
C15_NoOpNavigation ==
    /\ parent(current_directory) = None
       => \A in \in DirInputs : go_up(Self, in.fs, in.rev) = Self
    /\ \A in \in DirInputs :
          /\ load_directory(Self, GoneDir, in.fs, in.rev) = Self
          /\ load_directory(Self, <<n_A_mp3>>, in.fs, in.rev) = Self
    /\ \A path \in StartDirs, rev \in BOOLEAN :
          load_directory(Self, path, "missing", rev) = Self

\* App::new was given a start directory that does not exist: its
\* load_directory left the listing empty and the directory as given
C15_Witness ==
    /\ current_directory = GoneDir
    /\ browser_items = <<>>
    /\ browser_index = 0

\* C16: after a load has failed, on_tick leaves queue_index on the failed
\* item, however many ticks follow, and attempts no load: the engine neither
\* skips past the track nor retries it
C16_NoSkipOnFailure ==
    [][ (queue # <<>> /\ sink.source = None /\ Tick)
        => /\ queue_index' = queue_index
           /\ loads' = <<>> ]_vars

\* C17: while the queue is empty the engine is Stopped: is_playing is false
\* and elapsed is zero
C17_EmptyQueueStopped ==
    queue = <<>> => (~is_playing /\ elapsed = 0)

\* C18: on_tick advances automatically only when the item at queue_index was
\* loaded successfully and that load captured a duration; the duration of an
\* earlier item does not count, and nothing loaded means no advance
C18_AutoAdvanceGuard ==
    [][ (loads' # <<>> /\ Tick)
        => /\ duration # None
           /\ queue_index < Len(queue)
           /\ sink.source = Some(queue[queue_index + 1]) ]_vars

\* C19: elapsed changes only by +250 ms on an on_tick made while playing and
\* by a reset to zero on a successful load; on_tick while not playing leaves
\* elapsed and queue_index unchanged; and elapsed always equals 250 ms times
\* the number of ticks handled while playing since the latest successful load
C19_ElapsedAccounting ==
    /\ [](elapsed = TickMs * played_ticks)
    /\ [](~is_playing =>
            \A in \in LoadInputs :
                LET b == on_tick(Self, in.ok, in.dur)
                IN  b.elapsed = elapsed /\ b.queue_index = queue_index)
    /\ [][ \/ elapsed' = elapsed
           \/ elapsed' = elapsed + TickMs /\ is_playing /\ Tick
           \/ elapsed' = 0 /\ loads' # <<>> /\ LastLoad(loads').ok ]_vars

\* two ticks have been counted on a loaded track that is still playing
C19_Witness ==
    /\ is_playing
    /\ sink.source # None
    /\ played_ticks = 2
    /\ elapsed = 2 * TickMs

\* C20: once the receiver of the event channel is dropped, the input thread
\* and the tick thread both eventually terminate, under fair scheduling of
\* the two threads and without any further key press
C20_ProducersTerminate ==
    rx_dropped ~> (input_pc = "done" /\ tick_pc = "done")

\* C21: in every reachable state the volume of the live sink equals the
\* engine's volume / 100 (both held here as a percentage): after
\* construction, after volume_up and volume_down, and after every sink a
\* load puts in place, whether the load succeeds or fails
C21_SinkVolumeInSync ==
    /\ sink.volume = volume
    /\ \A in \in LoadInputs :
           /\ LET b == volume_up(Self) IN b.sink.volume = b.volume
           /\ LET b == volume_down(Self) IN b.sink.volume = b.volume
           /\ LET b == play_queue_item(Self, in.ok, in.dur) IN b.sink.volume = b.volume

\* the volume has been changed and a failed load has then replaced the sink
C21_Witness ==
    /\ volume = InitialVolume - VolumeStep
    /\ loads # <<>>
    /\ ~LastLoad(loads).ok
    /\ sink.source = None
    /\ sink.volume = volume

====
